---- MODULE Spec2Model ----
(***************************************************************************)
(* Model of overlay.py (GeoInfoOverlay): EXIF timestamp and GPS decoding,  *)
(* reverse geocoding, caption wrapping/layout, and the batch loop of main. *)
(*                                                                         *)
(* Conventions.                                                            *)
(*  - A Python str is a sequence of one-character strings; a bytes value   *)
(*    is a sequence of integers 0..255.                                    *)
(*  - A Python dict is a function whose DOMAIN is the set of keys present. *)
(*  - An optional value (x or None) is a sequence of length 0 or 1.        *)
(*  - A function result is a record [exc |-> name of the exception that    *)
(*    escapes the function, or "none"; val |-> returned value].            *)
(*  - A Python float is an IEEE 754 double [neg, man, exp] of value         *)
(*    man * 2^exp: man is zero or a 53-bit integer, held as a sequence of  *)
(*    base-2^15 limbs (least significant first) because it exceeds the     *)
(*    32-bit integers of TLC; every operation rounds to nearest,           *)
(*    ties to even.  The sign is kept apart so that -0.0 is distinct.      *)
(*  - A character outside ASCII is the string "chr(n)" of its code point.  *)
(*  - An EXIF rational is a pair of unsigned integers, as piexif loads it. *)
(***************************************************************************)
EXTENDS Integers, Sequences, FiniteSets, TLC

VARIABLES
  files,     \* main: the supported/unsupported files in os.walk order
  idx,       \* main: number of files of the walk already consumed
  pc,        \* main: "start" | "walk" | "done" | "aborted" | "nofolder"
  handed,    \* main: indices of the files handed to process_image
  jobs,      \* main: per index, the trace of process_image for that file
  folder,    \* main: whether INPUT_FOLDER exists
  dateIn,    \* get_date: the EXIF dictionary under test
  dateOut,   \* get_date: result (sequence of 0 or 1 results)
  gpsIn,     \* get_gps_coords: the EXIF dictionary under test
  gpsOut,    \* get_gps_coords: result (sequence of 0 or 1 results)
  geoIn,     \* reverse_geocode: outcome of the geocoder collaborator
  geoOut,    \* reverse_geocode: result (sequence of 0 or 1 results)
  ovIn,      \* add_overlay: [text, width, height]
  ovOut      \* add_overlay: result (sequence of 0 or 1 results)

vars == <<files, idx, pc, handed, jobs, folder, dateIn, dateOut, gpsIn, gpsOut,
          geoIn, geoOut, ovIn, ovOut>>

(***************************************************************************)
(* Bounds of the model.                                                    *)
(***************************************************************************)
MaxFiles == 2      \* length of the walk in the batch specification
MaxLen == 6        \* length of the caption text in the overlay specification
MaxDen == 2        \* rational denominators range over 0..MaxDen

(***************************************************************************)
(* Program constants.                                                      *)
(***************************************************************************)
MAX_WIDTH == 2048
SUPPORTED_EXTENSIONS ==
  {<<".", "j", "p", "g">>, <<".", "j", "p", "e", "g">>, <<".", "p", "n", "g">>,
   <<".", "t", "i", "f", "f">>, <<".", "b", "m", "p">>, <<".", "g", "i", "f">>}
padding == 10
shadow_offset == 2

\* piexif.ExifIFD: the tag names it defines that get_date probes.  DateTime
\* is a tag of the 0th IFD (piexif.ImageIFD), not of ExifIFD.
ExifIFD == [t \in {"DateTimeOriginal", "DateTimeDigitized"} |->
              IF t = "DateTimeOriginal" THEN 36867 ELSE 36868]
\* piexif.GPSIFD
GPSLatitudeRef == 1
GPSLatitude == 2
GPSLongitudeRef == 3
GPSLongitude == 4

(***************************************************************************)
(* Python helpers.                                                         *)
(***************************************************************************)
Ret(v) == [exc |-> "none", val |-> v]
Raise(e) == [exc |-> e, val |-> <<>>]

\* dict.get(k): <<value>> when the key is present, <<>> (None) otherwise
DictGet(d, k) == IF k \in DOMAIN d THEN <<d[k]>> ELSE <<>>

\* getattr(piexif.ExifIFD, tag, None); 0 stands for None (falsy)
TagId(tag) == IF tag \in DOMAIN ExifIFD THEN ExifIFD[tag] ELSE 0

SetMax(S) == CHOOSE m \in S : \A n \in S : n <= m
SetMin(S) == CHOOSE m \in S : \A n \in S : m <= n

\* the characters of code points 32..126 (the grave accent, which a string
\* of this notation cannot hold, by its code point)
Ascii ==
  <<" ", "!", "\"", "#", "$", "%", "&", "'", "(", ")", "*", "+", ",", "-",
    ".", "/", "0", "1", "2", "3", "4", "5", "6", "7", "8", "9", ":", ";",
    "<", "=", ">", "?", "@", "A", "B", "C", "D", "E", "F", "G", "H", "I",
    "J", "K", "L", "M", "N", "O", "P", "Q", "R", "S", "T", "U", "V", "W",
    "X", "Y", "Z", "[", "\\", "]", "^", "_", "chr(96)", "a", "b", "c", "d",
    "e", "f", "g", "h", "i", "j", "k", "l", "m", "n", "o", "p", "q", "r",
    "s", "t", "u", "v", "w", "x", "y", "z", "{", "|", "}", "~">>

\* chr(cp): the character of a code point
Chr(cp) ==
  IF cp >= 32 /\ cp <= 126 THEN Ascii[cp - 31]
  ELSE IF cp = 9 THEN "\t"
  ELSE IF cp = 10 THEN "\n"
  ELSE IF cp = 12 THEN "\f"
  ELSE IF cp = 13 THEN "\r"
  ELSE "chr(" \o ToString(cp) \o ")"

\* b[i] is a UTF-8 continuation byte
Continuation(b, i) == i <= Len(b) /\ b[i] >= 128 /\ b[i] <= 191

\* bytes.decode('utf-8'), strict, from the i-th byte on: sequences of one to
\* four bytes are decoded; a stray continuation byte, a truncated sequence,
\* an overlong form, a surrogate and a code point above U+10FFFF raise
\* UnicodeDecodeError
RECURSIVE Utf8From(_, _, _)
Utf8From(b, i, acc) ==
  IF i > Len(b) THEN Ret(acc)
  ELSE IF b[i] < 128 THEN Utf8From(b, i + 1, Append(acc, Chr(b[i])))
  ELSE IF /\ b[i] >= 194 /\ b[i] <= 223
          /\ Continuation(b, i + 1)
       THEN Utf8From(b, i + 2,
                     Append(acc, Chr((b[i] - 192) * 64 + (b[i + 1] - 128))))
  ELSE IF /\ b[i] >= 224 /\ b[i] <= 239
          /\ Continuation(b, i + 1) /\ Continuation(b, i + 2)
          /\ b[i] = 224 => b[i + 1] >= 160
          /\ b[i] = 237 => b[i + 1] <= 159
       THEN Utf8From(b, i + 3,
                     Append(acc, Chr((b[i] - 224) * 4096
                                       + (b[i + 1] - 128) * 64
                                       + (b[i + 2] - 128))))
  ELSE IF /\ b[i] >= 240 /\ b[i] <= 244
          /\ Continuation(b, i + 1) /\ Continuation(b, i + 2)
          /\ Continuation(b, i + 3)
          /\ b[i] = 240 => b[i + 1] >= 144
          /\ b[i] = 244 => b[i + 1] <= 143
       THEN Utf8From(b, i + 4,
                     Append(acc, Chr((b[i] - 240) * 262144
                                       + (b[i + 1] - 128) * 4096
                                       + (b[i + 2] - 128) * 64
                                       + (b[i + 3] - 128))))
  ELSE Raise("UnicodeDecodeError")

decode(b) == Utf8From(b, 1, <<>>)

(***************************************************************************)
(* get_date                                                                *)
(***************************************************************************)
DateTags == <<"DateTimeOriginal", "DateTime", "DateTimeDigitized">>

UnknownDate == <<"U","n","k","n","o","w","n"," ","D","a","t","e">>

\* The for loop of get_date from its i-th tag on.  The body returns
\* date_time.decode('utf-8') for the first tag whose id is truthy, whether or
\* not the dictionary holds that tag: None.decode raises AttributeError.
RECURSIVE get_date_from(_, _)
get_date_from(exif_dict, i) ==
  IF i > Len(DateTags) THEN Ret(UnknownDate)
  ELSE LET tag_id == TagId(DateTags[i]) IN
    IF tag_id # 0
    THEN LET date_time == DictGet(exif_dict["Exif"], tag_id) IN
           IF date_time = <<>> THEN Raise("AttributeError")
           ELSE decode(date_time[1])
    ELSE get_date_from(exif_dict, i + 1)

get_date(exif_dict) == get_date_from(exif_dict, 1)

(***************************************************************************)
(* get_gps_coords                                                          *)
(***************************************************************************)
\* ---- integers wider than 32 bits: limbs of 15 bits, least
\* ---- significant first, no leading zero limb (zero is the empty sequence)
Base == 32768

Limb(a, i) == IF i >= 1 /\ i <= Len(a) THEN a[i] ELSE 0
ZeroLimbs(n) == [i \in 1..n |-> 0]

BigNorm(a) ==
  LET nz == {i \in 1..Len(a) : a[i] # 0} IN
  IF nz = {} THEN <<>> ELSE SubSeq(a, 1, SetMax(nz))

BigOfInt(n) == BigNorm(<<n % Base, (n \div Base) % Base, n \div (Base * Base)>>)
BigToInt(a) == Limb(a, 1) + Limb(a, 2) * Base + Limb(a, 3) * Base * Base

IntBitLen(n) == Cardinality({i \in 0..30 : 2^i <= n})
BigBitLen(a) ==
  IF a = <<>> THEN 0 ELSE 15 * (Len(a) - 1) + IntBitLen(a[Len(a)])

\* -1, 0 or 1 as a is below, equal to or above b
BigCmp(a, b) ==
  IF Len(a) # Len(b) THEN (IF Len(a) < Len(b) THEN 0 - 1 ELSE 1)
  ELSE LET d == {i \in 1..Len(a) : a[i] # b[i]} IN
       IF d = {} THEN 0
       ELSE IF a[SetMax(d)] < b[SetMax(d)] THEN 0 - 1 ELSE 1

RECURSIVE BigAddFrom(_, _, _, _)
BigAddFrom(a, b, i, carry) ==
  IF i > Len(a) /\ i > Len(b) THEN (IF carry = 0 THEN <<>> ELSE <<carry>>)
  ELSE LET t == Limb(a, i) + Limb(b, i) + carry IN
       <<t % Base>> \o BigAddFrom(a, b, i + 1, t \div Base)

BigAdd(a, b) == BigNorm(BigAddFrom(a, b, 1, 0))

\* a - b for a >= b
RECURSIVE BigSubFrom(_, _, _, _)
BigSubFrom(a, b, i, borrow) ==
  IF i > Len(a) THEN <<>>
  ELSE LET t == a[i] - Limb(b, i) - borrow IN
       <<t % Base>> \o BigSubFrom(a, b, i + 1, IF t < 0 THEN 1 ELSE 0)

BigSub(a, b) == BigNorm(BigSubFrom(a, b, 1, 0))

\* a * k for one limb k
RECURSIVE BigMulFrom(_, _, _, _)
BigMulFrom(a, k, i, carry) ==
  IF i > Len(a) THEN <<carry>>
  ELSE LET t == a[i] * k + carry IN
       <<t % Base>> \o BigMulFrom(a, k, i + 1, t \div Base)

BigMulLimb(a, k) == BigNorm(BigMulFrom(a, k, 1, 0))

RECURSIVE BigMulAcc(_, _, _)
BigMulAcc(a, b, j) ==
  IF j > Len(b) THEN <<>>
  ELSE BigAdd(ZeroLimbs(j - 1) \o BigMulLimb(a, b[j]), BigMulAcc(a, b, j + 1))

BigMul(a, b) == BigMulAcc(a, b, 1)

\* a * 2^n
BigShl(a, n) ==
  LET q == n \div 15
      r == n % 15
  IN BigNorm(ZeroLimbs(q) \o
             [i \in 1..(Len(a) + 1) |->
                ((Limb(a, i) * 2^r) % Base) + (Limb(a, i - 1) \div 2^(15 - r))])

\* a \div 2^n
BigShr(a, n) ==
  LET q == n \div 15
      r == n % 15
  IN IF q >= Len(a) THEN <<>>
     ELSE BigNorm([i \in 1..(Len(a) - q) |->
                     (a[q + i] \div 2^r)
                       + (Limb(a, q + i + 1) % 2^r) * 2^(15 - r)])

\* one limb of a long division by d: quotient and remainder of
\* rem * Base + limb, bit by bit when the product exceeds 32 bits
RECURSIVE DivBits(_, _, _, _, _)
DivBits(rem, limb, d, i, quo) ==
  IF i < 0 THEN <<quo, rem>>
  ELSE LET bit == (limb \div 2^i) % 2 IN
       IF rem >= d - rem - bit
       THEN DivBits(rem - (d - rem - bit), limb, d, i - 1, 2 * quo + 1)
       ELSE DivBits(rem + rem + bit, limb, d, i - 1, 2 * quo)

DivLimb(rem, limb, d) ==
  IF d <= 2 * Base
  THEN <<(rem * Base + limb) \div d, (rem * Base + limb) % d>>
  ELSE DivBits(rem, limb, d, 14, 0)

RECURSIVE BigDivFrom(_, _, _, _)
BigDivFrom(a, d, i, rem) ==
  IF i = 0 THEN [q |-> <<>>, r |-> rem]
  ELSE LET t == DivLimb(rem, a[i], d)
           rest == BigDivFrom(a, d, i - 1, t[2])
       IN [q |-> Append(rest.q, t[1]), r |-> rest.r]

\* quotient and remainder of a by an integer d > 0
BigDivInt(a, d) ==
  [q |-> BigNorm(BigDivFrom(a, d, Len(a), 0).q),
   r |-> BigDivFrom(a, d, Len(a), 0).r]

\* a % 2^n
BigLowBits(a, n) ==
  BigNorm([i \in 1..(n \div 15 + 1) |->
             IF i <= n \div 15 THEN Limb(a, i) ELSE Limb(a, i) % 2^(n % 15)])

\* ---- IEEE 754 double arithmetic
Float(neg, man, exp) == [neg |-> neg, man |-> man, exp |-> exp]
Negate(f) == Float(~f.neg, f.man, f.exp)

\* a mantissa that rounding carried to 54 bits is halved
Renormalize(neg, man, exp) ==
  IF BigBitLen(man) = 54 THEN Float(neg, BigShr(man, 1), exp + 1)
  ELSE Float(neg, man, exp)

\* round to nearest, ties to even: m0 is the mantissa cut to 53 bits, half
\* tells whether the bits cut off are below (-1), at (0) or above (1) one
\* half, sticky whether anything lies beyond them
RoundNearestEven(neg, m0, half, sticky, exp) ==
  Renormalize(neg,
              IF half > 0 \/ (half = 0 /\ (sticky \/ m0[1] % 2 = 1))
              THEN BigAdd(m0, <<1>>) ELSE m0,
              exp)

\* the double nearest to (q + fraction) * 2^exp for q of at least 55 bits,
\* of which the lowest t are cut off; sticky is fraction # 0
RoundCut(neg, q, sticky, exp, t) ==
  RoundNearestEven(neg, BigShr(q, t),
                   BigCmp(BigLowBits(q, t), BigShl(<<1>>, t - 1)),
                   sticky, exp + t)

RoundQuotient(neg, x, exp) ==
  RoundCut(neg, x.q, x.r # 0, exp, BigBitLen(x.q) - 53)

\* the double nearest to (n / d) * 2^s, ties to even, for n >= 0 and d > 0:
\* the quotient is taken with at least 55 bits, cut to 53 and rounded on the
\* bits cut off and the remainder
RoundShifted(neg, n, d, s, k) ==
  RoundQuotient(neg, BigDivInt(BigShl(n, k), d), s - k)

RoundToDouble(neg, n, d, s) ==
  IF n = <<>> THEN Float(neg, <<>>, 0)
  ELSE RoundShifted(neg, n, d, s,
                    IF 55 + IntBitLen(d) > BigBitLen(n)
                    THEN 55 + IntBitLen(d) - BigBitLen(n) ELSE 0)

\* float(n) for an int n >= 0
FloatOfInt(n) == RoundToDouble(FALSE, BigOfInt(n), 1, 0)

\* a / b for ints a >= 0 and b > 0
IntTrueDiv(a, b) == RoundToDouble(FALSE, BigOfInt(a), b, 0)

\* f / c for a float f and an int c > 0
FloatDivInt(f, c) == RoundToDouble(f.neg, f.man, c, f.exp)

\* x + y for floats x, y >= 0
FloatAdd(x, y) ==
  LET e == IF x.exp < y.exp THEN x.exp ELSE y.exp IN
  RoundToDouble(FALSE, BigAdd(BigShl(x.man, x.exp - e),
                              BigShl(y.man, y.exp - e)), 1, e)

\* x * y
FloatMul(x, y) ==
  RoundToDouble(x.neg # y.neg, BigMul(x.man, y.man), 1, x.exp + y.exp)

\* int(f): truncation toward zero
FloatTrunc(f) ==
  LET n == IF f.exp >= 0 THEN BigToInt(BigShl(f.man, f.exp))
           ELSE BigToInt(BigShr(f.man, 0 - f.exp))
  IN IF f.neg THEN 0 - n ELSE n

\* variant of _convert_to_degrees that takes each rational with the floor
\* division d[0]//d[1]
convert_floor_division(value) ==
  IF Len(value) # 3 THEN Raise("ValueError")
  ELSE LET d == value[1]
           m == value[2]
           s == value[3]
       IN IF d[2] = 0 \/ m[2] = 0 \/ s[2] = 0 THEN Raise("ZeroDivisionError")
          ELSE Ret(FloatAdd(FloatAdd(FloatOfInt(d[1] \div d[2]),
                                     FloatDivInt(FloatOfInt(m[1] \div m[2]),
                                                 60)),
                            FloatDivInt(FloatOfInt(s[1] \div s[2]), 3600)))

\* variant of _convert_to_degrees that leaves the minutes out
convert_without_minutes(value) ==
  IF Len(value) # 3 THEN Raise("ValueError")
  ELSE LET d == value[1]
           m == value[2]
           s == value[3]
       IN IF d[2] = 0 \/ m[2] = 0 \/ s[2] = 0 THEN Raise("ZeroDivisionError")
          ELSE Ret(FloatAdd(IntTrueDiv(d[1], d[2]),
                            FloatDivInt(IntTrueDiv(s[1], s[2]), 3600)))

\* d[0]/d[1] + (m[0]/m[1])/60 + (s[0]/s[1])/3600, evaluated left to right
\* in doubles; the tuple unpacking needs exactly three components and every
\* division a non-zero denominator
_convert_to_degrees(value) ==
  IF Len(value) # 3 THEN Raise("ValueError")
  ELSE LET d == value[1]
           m == value[2]
           s == value[3]
       IN IF d[2] = 0 \/ m[2] = 0 \/ s[2] = 0 THEN Raise("ZeroDivisionError")
          ELSE Ret(FloatAdd(FloatAdd(IntTrueDiv(d[1], d[2]),
                                     FloatDivInt(IntTrueDiv(m[1], m[2]), 60)),
                            FloatDivInt(IntTrueDiv(s[1], s[2]), 3600)))

\* lat = -lat (lon = -lon) when the reference is not the positive one
Signed(r, ref, positive) ==
  IF r.exc # "none" THEN r
  ELSE IF ref # positive THEN Ret(Negate(r.val)) ELSE r

\* variant of Axis that indexes the reference instead of defaulting it
Axis_ref_required(gps_info, key, refKey, positive) ==
  IF key \notin DOMAIN gps_info \/ refKey \notin DOMAIN gps_info
  THEN Raise("KeyError")
  ELSE Signed(_convert_to_degrees(gps_info[key]), gps_info[refKey], positive)

\* one axis of the try block: the indexing gps_info[key] raises KeyError,
\* the reference defaults to the positive hemisphere when absent
Axis(gps_info, key, refKey, positive) ==
  IF key \notin DOMAIN gps_info THEN Raise("KeyError")
  ELSE Signed(_convert_to_degrees(gps_info[key]),
              IF refKey \in DOMAIN gps_info THEN gps_info[refKey]
              ELSE positive,
              positive)

\* return (lat, lon), or None from either except clause
CoordsOrNone(lat, lon) ==
  IF lat.exc # "none" \/ lon.exc # "none" THEN Ret(<<>>)
  ELSE Ret(<< <<lat.val, lon.val>> >>)

\* returns <<>> for None and << <<lat, lon>> >> for a coordinate; both except
\* clauses return None, so no exception escapes
get_gps_coords(exif_dict) ==
  IF DOMAIN exif_dict["GPS"] = {} THEN Ret(<<>>)
  ELSE CoordsOrNone(Axis(exif_dict["GPS"], GPSLatitude, GPSLatitudeRef, <<78>>),
                    Axis(exif_dict["GPS"], GPSLongitude, GPSLongitudeRef,
                         <<69>>))

(***************************************************************************)
(* reverse_geocode                                                         *)
(***************************************************************************)
AddressParts == <<"road", "suburb", "city", "state_district", "state",
                  "country">>

UnknownLocation == <<"U","n","k","n","o","w","n"," ",
                     "L","o","c","a","t","i","o","n">>
LocationUnavailable == <<"L","o","c","a","t","i","o","n"," ",
                         "U","n","a","v","a","i","l","a","b","l","e">>

\* sep.join(parts)
RECURSIVE Join(_, _)
Join(parts, sep) ==
  IF Len(parts) = 0 THEN <<>>
  ELSE IF Len(parts) = 1 THEN parts[1]
  ELSE parts[1] \o sep \o Join(Tail(parts), sep)

\* the loop over the six address fields from the i-th on
RECURSIVE location_parts_from(_, _)
location_parts_from(address, i) ==
  IF i > Len(AddressParts) THEN <<>>
  ELSE (IF AddressParts[i] \in DOMAIN address
        THEN <<address[AddressParts[i]]>> ELSE <<>>)
       \o location_parts_from(address, i + 1)

\* geo is what geolocator.reverse does: kind "timeout" (GeocoderTimedOut),
\* "error" (any other exception), "none" (returns None) or "location"
\* (returns a Location whose raw dictionary is geo.raw)
reverse_geocode(coords, geo) ==
  IF geo.kind = "timeout" THEN Ret(LocationUnavailable)
  ELSE IF geo.kind = "error" THEN Ret(LocationUnavailable)
  ELSE IF geo.kind = "none" THEN Ret(UnknownLocation)
  ELSE IF "address" \notin DOMAIN geo.raw THEN Ret(LocationUnavailable)
  ELSE Ret(Join(location_parts_from(geo.raw["address"], 1), <<",", " ">>))

(***************************************************************************)
(* add_overlay                                                             *)
(***************************************************************************)
\* The font collaborator (ImageFont.getbbox).  Glyph metrics are those of a
\* proportional font: the advance widths add up along the text, the box runs
\* from the highest glyph top to the lowest glyph bottom; a space has an
\* advance and no ink.
NarrowGlyphs == {" ", ":", ",", ".", "(", ")", "-", "i", "l", "t"}
LowGlyphs == {"a", "c", "e", "g", "m", "n", "o", "p", "r", "s", "u", "v",
              "w", "x", "y", "z", ":", ",", ".", "-"}
DeepGlyphs == {",", "(", ")", "g", "p", "y"}
GlyphWidth(c) == IF c \in NarrowGlyphs THEN 10 ELSE 20
GlyphTop(c) == IF c \in LowGlyphs THEN 10 ELSE 2
GlyphBottom(c) == IF c \in DeepGlyphs THEN 38 ELSE 30

TextWidth(text) ==
  10 * Cardinality({i \in 1..Len(text) : GlyphWidth(text[i]) = 10})
    + 20 * Cardinality({i \in 1..Len(text) : GlyphWidth(text[i]) = 20})

Ink(text) == {i \in 1..Len(text) : text[i] # " "}
TextHeight(text) ==
  IF Ink(text) = {} THEN 0
  ELSE SetMax({GlyphBottom(text[i]) : i \in Ink(text)})
       - SetMin({GlyphTop(text[i]) : i \in Ink(text)})

\* (bbox[2] - bbox[0], bbox[3] - bbox[1])
get_text_size(text) == <<TextWidth(text), TextHeight(text)>>

\* the characters str.split() and str.strip() take as whitespace
Whitespace ==
  {Chr(cp) : cp \in {9, 10, 11, 12, 13, 28, 29, 30, 31, 32, 133, 160, 5760,
                     8232, 8233, 8239, 8287, 12288} \cup (8192..8202)}

\* the k-th smallest element of a set of integers
Kth(S, k) == CHOOSE p \in S : Cardinality({q \in S : q < p}) = k - 1

\* str.split(sep) for a one-character separator: the pieces between
\* consecutive separators, empty pieces included
Split(text, sep) ==
  LET P == {i \in 1..Len(text) : text[i] = sep}
      n == Cardinality(P)
      first(k) == IF k = 1 THEN 1 ELSE Kth(P, k - 1) + 1
      last(k) == IF k = n + 1 THEN Len(text) ELSE Kth(P, k) - 1
  IN [k \in 1..(n + 1) |-> SubSeq(text, first(k), last(k))]

\* str.split(): the maximal runs of non-whitespace
SplitWords(text) ==
  LET ws(i) == i < 1 \/ i > Len(text) \/ text[i] \in Whitespace
      S == {i \in 1..Len(text) : ~ws(i) /\ ws(i - 1)}
      E == {i \in 1..Len(text) : ~ws(i) /\ ws(i + 1)}
  IN [k \in 1..Cardinality(S) |-> SubSeq(text, Kth(S, k), Kth(E, k))]

\* str.strip()
Strip(text) ==
  LET N == {i \in 1..Len(text) : text[i] \notin Whitespace} IN
  IF N = {} THEN <<>> ELSE SubSeq(text, SetMin(N), SetMax(N))

\* line.split(':', 1) of a line that holds a colon
FirstColon(line) == SetMin({i \in 1..Len(line) : line[i] = ":"})
LabelOf(line) == SubSeq(line, 1, FirstColon(line) - 1)
ContentOf(line) == SubSeq(line, FirstColon(line) + 1, Len(line))

Flush(lines, current_line) ==
  IF current_line # <<>> THEN Append(lines, Join(current_line, <<" ">>))
  ELSE lines

\* the for loop of wrap_text from the i-th word on, and the flush after it
RECURSIVE wrap_from(_, _, _, _, _)
wrap_from(words, i, lines, current_line, max_width) ==
  IF i > Len(words) THEN Flush(lines, current_line)
  ELSE LET word == words[i]
           test_line == Join(Append(current_line, word), <<" ">>)
           width == get_text_size(test_line)[1]
       IN IF width <= max_width
          THEN wrap_from(words, i + 1, lines, Append(current_line, word),
                         max_width)
          ELSE wrap_from(words, i + 1, Flush(lines, current_line), <<word>>,
                         max_width)

wrap_text(text, max_width) ==
  wrap_from(SplitWords(text), 1, <<>>, <<>>, max_width)

\* the lines one logical line contributes to wrapped_lines; wrapped[0] of an
\* empty list raises IndexError
wrap_line(line, max_text_width) ==
  IF \E i \in 1..Len(line) : line[i] = ":"
  THEN LET label == LabelOf(line)
           content == ContentOf(line)
           label_width == get_text_size(label \o <<":", " ">>)[1]
           wrapped == wrap_text(Strip(content), max_text_width - label_width)
       IN IF wrapped = <<>> THEN Raise("IndexError")
          ELSE Ret(<<label \o <<":">> \o wrapped[1]>> \o Tail(wrapped))
  ELSE Ret(wrap_text(line, max_text_width))

\* the loop that builds wrapped_lines, from the i-th logical line on
RECURSIVE wrapped_from(_, _, _, _)
wrapped_from(text_lines, i, acc, max_text_width) ==
  IF i > Len(text_lines) THEN Ret(acc)
  ELSE LET r == wrap_line(text_lines[i], max_text_width) IN
       IF r.exc # "none" THEN r
       ELSE wrapped_from(text_lines, i + 1, acc \o r.val, max_text_width)

RECURSIVE SumHeights(_)
SumHeights(lines) ==
  IF lines = <<>> THEN 0
  ELSE get_text_size(Head(lines))[2] + SumHeights(Tail(lines))

\* variant of total_height that counts a gap per line
total_height_gap_per_line(wrapped_lines) ==
  SumHeights(wrapped_lines) + padding * Len(wrapped_lines)

total_height(wrapped_lines) ==
  SumHeights(wrapped_lines) + padding * (Len(wrapped_lines) - 1)

\* the drawing loop: per line the shadow call, then the text call
RECURSIVE draw_from(_, _, _, _)
draw_from(wrapped_lines, i, x, y) ==
  IF i > Len(wrapped_lines) THEN <<>>
  ELSE LET line == wrapped_lines[i]
           height == get_text_size(line)[2]
       IN << [x |-> x + shadow_offset, y |-> y + shadow_offset,
              text |-> line, fill |-> "shadow"],
             [x |-> x, y |-> y, text |-> line, fill |-> "text"] >>
          \o draw_from(wrapped_lines, i + 1, x, y + height + padding)

add_overlay(text, width, height) ==
  LET text_lines == Split(text, "\n")
      max_text_width == width - (padding * 4)
      w == wrapped_from(text_lines, 1, <<>>, max_text_width)
  IN IF w.exc # "none" THEN w
     ELSE LET wrapped_lines == w.val
              total_text_height == total_height(wrapped_lines)
              x == width - max_text_width - padding
              y == height - total_text_height - padding * 2
          IN Ret([wrapped_lines |-> wrapped_lines,
                  total_text_height |-> total_text_height,
                  max_text_width |-> max_text_width,
                  x |-> x, y |-> y,
                  draws |-> draw_from(wrapped_lines, 1, x, y)])

(***************************************************************************)
(* process_image                                                           *)
(***************************************************************************)
Digit(n) ==
  CASE n = 0 -> "0" [] n = 1 -> "1" [] n = 2 -> "2" [] n = 3 -> "3"
    [] n = 4 -> "4" [] n = 5 -> "5" [] n = 6 -> "6" [] n = 7 -> "7"
    [] n = 8 -> "8" [] n = 9 -> "9"

RECURSIVE IntDigits(_)
IntDigits(n) ==
  IF n < 10 THEN <<Digit(n)>> ELSE Append(IntDigits(n \div 10), Digit(n % 10))

\* 10^n
RECURSIVE BigPow10(_)
BigPow10(n) ==
  IF n >= 4 THEN BigMulLimb(BigPow10(n - 4), 10000) ELSE BigOfInt(10^n)

\* a \div 10^n
RECURSIVE BigDivPow10(_, _)
BigDivPow10(a, n) ==
  IF n >= 4 THEN BigDivPow10(BigDivInt(a, 10000).q, n - 4)
  ELSE BigDivInt(a, 10^n).q

\* a * 2^e * 10^p for p >= 0 and any e, rounded down
Scale(a, e, p) ==
  IF e >= 0 THEN BigShl(BigMul(a, BigPow10(p)), e)
  ELSE BigShr(BigMul(a, BigPow10(p)), 0 - e)

\* -1, 0 or 1 as x * 2^e is below, equal to or above d * 10^p
CmpScaled(x, e, d, p) ==
  BigCmp(BigMul(IF e >= 0 THEN BigShl(x, e) ELSE x,
                IF p < 0 THEN BigPow10(0 - p) ELSE <<1>>),
         BigMul(IF e < 0 THEN BigShl(d, 0 - e) ELSE d,
                IF p >= 0 THEN BigPow10(p) ELSE <<1>>))

\* the decimal exponent of a float f > 0: 10^(decpt - 1) <= f < 10^decpt
DecimalPoint(f) ==
  LET est == ((BigBitLen(f.man) + f.exp - 1) * 30103) \div 100000 IN
  CHOOSE k \in (est - 1)..(est + 3) :
    /\ CmpScaled(f.man, f.exp, <<1>>, k - 1) >= 0
    /\ CmpScaled(f.man, f.exp, <<1>>, k) < 0

\* d * 10^p reads back as f: it lies between the midpoints to the doubles
\* below f (nearer when f is a power of two) and above it, the midpoints
\* included when the mantissa is even; the midpoints are taken times four
\* in units of 2^f.exp
ReadsBack(f, d, p) ==
  LET below == CmpScaled(BigSub(BigShl(f.man, 2),
                                IF f.man = BigShl(<<1>>, 52) THEN <<1>>
                                ELSE <<2>>),
                         f.exp - 2, d, p)
      above == CmpScaled(BigAdd(BigShl(f.man, 2), <<2>>), f.exp - 2, d, p)
  IN IF f.man[1] % 2 = 0 THEN below <= 0 /\ above >= 0
     ELSE below < 0 /\ above > 0

\* f \div 10^p
FloorScaled(f, p) ==
  IF p >= 0 THEN BigDivPow10(Scale(f.man, f.exp, 0), p)
  ELSE Scale(f.man, f.exp, 0 - p)

\* the one of lo and lo + 1 (times 10^p) nearer to f, the even one on a tie
Nearer(f, lo, hi, p, mid) ==
  IF mid < 0 \/ (mid = 0 /\ lo[1] % 2 = 0) THEN lo ELSE hi

\* the shortest decimal d * 10^p that reads back as f > 0, nearest to f
\* among those of its length, tried with n digits and more
RECURSIVE ShortestFrom(_, _, _)
ShortestAmong(f, lo, hi, p, okLo, okHi, decpt, n) ==
  IF okLo /\ okHi
  THEN [d |-> Nearer(f, lo, hi, p,
                     CmpScaled(BigShl(f.man, 1), f.exp, BigAdd(lo, hi), p)),
        p |-> p]
  ELSE IF okLo THEN [d |-> lo, p |-> p]
  ELSE IF okHi THEN [d |-> hi, p |-> p]
  ELSE ShortestFrom(f, decpt, n + 1)

ShortestAt(f, lo, p, decpt, n) ==
  ShortestAmong(f, lo, BigAdd(lo, <<1>>), p, ReadsBack(f, lo, p),
                ReadsBack(f, BigAdd(lo, <<1>>), p), decpt, n)

ShortestFrom(f, decpt, n) ==
  ShortestAt(f, FloorScaled(f, decpt - n), decpt - n, decpt, n)

RECURSIVE BigDigits(_)
BigDigits(a) ==
  IF a = <<>> THEN <<>>
  ELSE Append(BigDigits(BigDivInt(a, 10).q), Digit(BigDivInt(a, 10).r))

Zeros(n) == [i \in 1..n |-> "0"]

\* the digits ds read as 0.ds * 10^decpt: exponent notation when decpt is
\* below -3 or above 16, ".0" appended to a whole number otherwise
FormatDigits(ds, decpt) ==
  IF decpt > 16 \/ decpt < 0 - 3
  THEN <<ds[1]>>
       \o (IF Len(ds) > 1 THEN <<".">> \o Tail(ds) ELSE <<>>)
       \o <<"e", IF decpt < 1 THEN "-" ELSE "+">>
       \o (IF decpt > 0 - 9 /\ decpt < 11 THEN <<"0">> ELSE <<>>)
       \o IntDigits(IF decpt < 1 THEN 1 - decpt ELSE decpt - 1)
  ELSE IF decpt <= 0 THEN <<"0", ".">> \o Zeros(0 - decpt) \o ds
  ELSE IF decpt >= Len(ds) THEN ds \o Zeros(decpt - Len(ds)) \o <<".", "0">>
  ELSE SubSeq(ds, 1, decpt) \o <<".">> \o SubSeq(ds, decpt + 1, Len(ds))

\* the digits of d without its trailing zeros, and where the point falls
FormatDecimal(all, p) ==
  FormatDigits(SubSeq(all, 1, SetMax({i \in 1..Len(all) : all[i] # "0"})),
               p + Len(all))

FormatShortest(s) == FormatDecimal(BigDigits(s.d), s.p)

\* repr() of a float: the shortest digits that read back as the same double
FloatRepr(f) ==
  (IF f.neg THEN <<"-">> ELSE <<>>) \o
  (IF f.man = <<>> THEN <<"0", ".", "0">>
   ELSE FormatShortest(ShortestFrom(f, DecimalPoint(f), 1)))

\* str(coords) inside the f-string: None or a tuple of two floats
CoordsStr(coords) ==
  IF coords = <<>> THEN <<"N", "o", "n", "e">>
  ELSE <<"(">> \o FloatRepr(coords[1][1]) \o <<",", " ">>
       \o FloatRepr(coords[1][2]) \o <<")">>

DateLabel == <<"D","a","t","e"," ","a","n","d"," ","T","i","m","e",":"," ">>
CoordsLabel == <<"L","a","t","t","i","t","u","d","e",","," ",
                 "L","o","n","g","i","t","u","d","e",":"," ">>
LocationLabel == <<"L","o","c","a","t","i","o","n",":"," ">>

CaptionText(date, coords, location) ==
  DateLabel \o date \o <<"\n">> \o CoordsLabel \o CoordsStr(coords)
    \o <<"\n">> \o LocationLabel \o location

\* variant of ResizedSize that keeps the height when it narrows the image
ResizedSize_keep_height(width, height) ==
  IF width > MAX_WIDTH THEN <<MAX_WIDTH, height>> ELSE <<width, height>>

\* img.resize((MAX_WIDTH, new_height)) when the width exceeds MAX_WIDTH,
\* with ratio = MAX_WIDTH / float(img.width) and
\* new_height = int(float(img.height) * ratio) in doubles; the image as
\* opened otherwise
ResizedSize(width, height) ==
  IF width > MAX_WIDTH
  THEN LET ratio == FloatDivInt(FloatOfInt(MAX_WIDTH), width)
           new_height == FloatTrunc(FloatMul(FloatOfInt(height), ratio))
       IN <<MAX_WIDTH, new_height>>
  ELSE <<width, height>>

Job(status, exc, text, size) ==
  [status |-> status, exc |-> exc, text |-> text, size |-> size]

Pending == Job("Pending", "none", <<>>, <<0, 0>>)

\* the try block of process_image from add_overlay on, size being the size
\* of the image after the resize step
Resized(f, text, size) ==
  IF add_overlay(text, size[1], size[2]).exc # "none"
  THEN Job("Failed", "none", text, size)
  ELSE IF ~f.writable THEN Job("Failed", "none", text, size)
  ELSE Job("Saved", "none", text, size)

\* The try block of process_image: every exception raised in it is caught
\* and the job ends unsaved.
RenderAndSave(f, text) ==
  IF ~f.decodes THEN Job("Failed", "none", text, <<0, 0>>)
  ELSE Resized(f, text, ResizedSize(f.width, f.height))

\* process_image from the reverse geocoding on
Located(f, date, coords) ==
  RenderAndSave(f, CaptionText(date, coords,
                               IF coords # <<>>
                               THEN reverse_geocode(coords[1], f.geo).val
                               ELSE UnknownLocation))

\* f is the file as the collaborators see it: whether piexif.load succeeds
\* and with which dictionary, what the geocoder does, whether Image.open
\* succeeds and with which size, whether save succeeds.  The calls before
\* the try block are unguarded: an exception of get_date leaves the function.
process_image(f) ==
  IF ~f.exifLoads THEN Job("Skipped", "none", <<>>, <<0, 0>>)
  ELSE LET date == get_date(f.exif) IN
    IF date.exc # "none" THEN Job("Raised", date.exc, <<>>, <<0, 0>>)
    ELSE Located(f, date.val, get_gps_coords(f.exif).val)

(***************************************************************************)
(* main                                                                    *)
(***************************************************************************)
\* file.lower().endswith(SUPPORTED_EXTENSIONS).  Every supported extension
\* is ASCII, and the only characters outside ASCII whose lowercase holds an
\* ASCII character are U+0130 (i followed by U+0307) and U+212A (k), neither
\* of which can yield the end of a supported extension; so the lowered name
\* ends with an extension exactly when the last characters of the name,
\* with the ASCII capitals lowered, spell it.
Supported(f) ==
  LET lower(c) == IF \E j \in 34..59 : Ascii[j] = c
                  THEN Ascii[(CHOOSE j \in 34..59 : Ascii[j] = c) + 32]
                  ELSE c
      n == Len(f.name)
  IN \E ext \in SUPPORTED_EXTENSIONS :
       /\ n >= Len(ext)
       /\ \A i \in 1..Len(ext) : lower(f.name[n - Len(ext) + i]) = ext[i]

\* the input folder does not exist: main returns before any job
NoInputFolder ==
  /\ pc = "start"
  /\ ~folder
  /\ pc' = "nofolder"
  /\ UNCHANGED <<files, idx, handed, jobs, folder>>

Begin ==
  /\ pc = "start"
  /\ folder
  /\ pc' = "walk"
  /\ UNCHANGED <<files, idx, handed, jobs, folder>>

\* a file whose extension is not supported is passed over
SkipFile ==
  /\ pc = "walk"
  /\ idx < Len(files)
  /\ ~Supported(files[idx + 1])
  /\ idx' = idx + 1
  /\ UNCHANGED <<files, pc, handed, jobs, folder>>

\* one iteration of the loop for a supported file: process_image runs to
\* its end; an exception that leaves it leaves main too
ProcessFile ==
  /\ pc = "walk"
  /\ idx < Len(files)
  /\ Supported(files[idx + 1])
  /\ LET job == process_image(files[idx + 1]) IN
       /\ jobs' = [jobs EXCEPT ![idx + 1] = job]
       /\ pc' = IF job.exc # "none" THEN "aborted" ELSE "walk"
  /\ handed' = handed \cup {idx + 1}
  /\ idx' = idx + 1
  /\ UNCHANGED <<files, folder>>

Finish ==
  /\ pc = "walk"
  /\ idx = Len(files)
  /\ pc' = "done"
  /\ UNCHANGED <<files, idx, handed, jobs, folder>>

(***************************************************************************)
(* Inputs.                                                                 *)
(***************************************************************************)
\* a dict with the given optional values under the given keys
MkDict(keys, opt) == [k \in {j \in keys : opt[j] # <<>>} |-> opt[k][1]]

\* piexif.load's dictionary, reduced to the three IFDs that hold the tags
\* of interest
ExifDict(zeroth, exif, gps) == [0th |-> zeroth, Exif |-> exif, GPS |-> gps]

Bytes_N == <<78>>
Bytes_S == <<83>>
Bytes_E == <<69>>
Bytes_W == <<87>>

\* b"20:01 10", b"", an invalid UTF-8 byte, b"\xc3\xa9"
DateStamp == <<50, 48, 58, 48, 49, 32, 49, 48>>
OptDate ==
  {<<>>} \cup {<<b>> : b \in {DateStamp, <<>>, <<255>>, <<195, 169>>}}

DateInputs ==
  {ExifDict(MkDict({306}, [k \in {306} |-> z]),
            MkDict({36867, 36868},
                   [k \in {36867, 36868} |-> IF k = 36867 THEN o ELSE d]),
            <<>>) : z \in OptDate, o \in OptDate, d \in OptDate}

Dens == 0..MaxDen
FewTriples == {<< <<40, 1>>, <<0, 1>>, <<0, 1>> >>,
               << <<74, 1>>, <<0, 1>>, <<0, 1>> >>,
               << <<74, 1>>, <<1, 2>>, <<2165, 100>> >>}
FullTriples ==
  {<< <<dn, dd>>, <<27, md>>, <<sn, sd>> >> :
      dn \in {40, 90, 200}, dd \in Dens, md \in Dens, sn \in {0, 45},
      sd \in Dens}
  \cup FewTriples
  \cup {<< <<200, 1>>, <<0, 1>>, <<0, 1>> >>,
        << <<40, 1>>, <<26, 1>>, <<4614, 100>> >>,
        << <<121, 3>>, <<80, 3>>, <<100, 7>> >>,
        << <<40, 1>>, <<30, 1>> >>, <<>>}
Opt(S) == {<<>>} \cup {<<v>> : v \in S}

GpsDict(lat, latRef, lon, lonRef) ==
  MkDict({GPSLatitudeRef, GPSLatitude, GPSLongitudeRef, GPSLongitude},
         [k \in 1..4 |-> CASE k = GPSLatitudeRef -> latRef
                           [] k = GPSLatitude -> lat
                           [] k = GPSLongitudeRef -> lonRef
                           [] k = GPSLongitude -> lon])

GpsBlocks ==
  {GpsDict(lat, latRef, lon, lonRef) :
     lat \in Opt(FullTriples), latRef \in Opt({Bytes_N, Bytes_S, <<>>}),
     lon \in Opt(FewTriples), lonRef \in Opt({Bytes_E, Bytes_W, <<>>})}
  \cup
  {GpsDict(lat, latRef, lon, lonRef) :
     lat \in Opt(FewTriples), latRef \in Opt({Bytes_N, Bytes_S, <<>>}),
     lon \in Opt(FullTriples), lonRef \in Opt({Bytes_E, Bytes_W, <<>>})}

GpsInputs == {ExifDict(<<>>, <<>>, g) : g \in GpsBlocks}

FieldText(field) ==
  CASE field = "road" -> <<"R", "d">>
    [] field = "suburb" -> <<"S", "o", "h", "o">>
    [] field = "city" -> <<"N", "e", "w", " ", "Y", "o", "r", "k">>
    [] field = "state_district" -> <<"D", "9">>
    [] field = "state" -> <<"N", "Y">>
    [] field = "country" -> <<"U", "S", "A">>
    [] OTHER -> <<"1", "0", "0", "0", "1">>

AddressFields == {"road", "suburb", "city", "state_district", "state",
                  "country", "postcode"}
Addresses == {[k \in ks |-> FieldText(k)] : ks \in SUBSET AddressFields}

Geo(kind, raw) == [kind |-> kind, raw |-> raw]
GeoInputs ==
  {Geo("timeout", <<>>), Geo("error", <<>>), Geo("none", <<>>),
   Geo("location", [k \in {"place_id"} |-> <<"7">>])}
  \cup {Geo("location", [k \in {"address"} |-> a]) : a \in Addresses}

NewYork == << FloatOfInt(40), Negate(FloatOfInt(74)) >>

OvChars == {"a", ":", " ", "\n"}
OvWidths == {70, 100}
OvTexts == UNION {[1..n -> OvChars] : n \in 0..MaxLen}
OvInputs == {[text |-> t, width |-> w, height |-> 200] :
               t \in OvTexts, w \in OvWidths}

\* the files of the batch: metadata and geocoder outcomes on an image that
\* decodes and saves, then the input/output outcomes on good metadata
GoodExif == MkDict({36867}, [k \in {36867} |-> <<DateStamp>>])
GoodGps == GpsDict(<< << <<40, 1>>, <<0, 1>>, <<0, 1>> >> >>, <<Bytes_N>>,
                   << << <<74, 1>>, <<0, 1>>, <<0, 1>> >> >>, <<Bytes_W>>)
BadGps == GpsDict(<< << <<40, 0>>, <<0, 1>>, <<0, 1>> >> >>, <<Bytes_N>>,
                  << << <<74, 1>>, <<0, 1>>, <<0, 1>> >> >>, <<Bytes_W>>)
CityCountry == [k \in {"city", "country"} |-> FieldText(k)]
GoodGeo == Geo("location", [k \in {"address"} |-> CityCountry])

\* file names of the walk
LowerJpg == <<"a", ".", "j", "p", "g">>

File(name, exifLoads, exif, geo, decodes, width, height, writable) ==
  [name |-> name, exifLoads |-> exifLoads, exif |-> exif, geo |-> geo,
   decodes |-> decodes, width |-> width, height |-> height,
   writable |-> writable]

BatchGeos ==
  {Geo("timeout", <<>>), Geo("error", <<>>), Geo("none", <<>>), GoodGeo,
   Geo("location", [k \in {"address"} |-> [j \in {"postcode"} |-> FieldText(j)]])}

Profiles ==
  {File(LowerJpg, TRUE, ExifDict(<<>>, e, GoodGps), g, TRUE, 1024, 768, TRUE) :
     e \in {GoodExif, <<>>}, g \in BatchGeos}
  \cup
  {File(LowerJpg, TRUE, ExifDict(<<>>, e, gps), Geo("none", <<>>), TRUE, 1024,
        768, TRUE) :
     e \in {GoodExif, <<>>, MkDict({36867}, [k \in {36867} |-> << <<>> >>])},
     gps \in {<<>>, BadGps}}
  \cup
  {File(x, l, ExifDict(<<>>, GoodExif, GoodGps), GoodGeo, TRUE, 1024, 768,
        TRUE) : x \in {<<"b", ".", "J", "P", "E", "G">>,
                       <<"j", "p", "g", ".", "t", "x", "t">>},
                l \in BOOLEAN}
  \cup
  {File(<<"c", ".", "P", "n", "g">>, TRUE, ExifDict(<<>>, GoodExif, GoodGps), GoodGeo, TRUE,
        sz[1], sz[2], TRUE) :
     sz \in {<<4096, 1024>>, <<1024, 4096>>, <<3000, 6000>>, <<100, 100>>,
            <<2215, 2215>>}}
  \cup
  {File(LowerJpg, TRUE, ExifDict(<<>>, GoodExif, GoodGps), GoodGeo, io[1],
        4096, 1024, io[2]) : io \in {<<FALSE, TRUE>>, <<TRUE, FALSE>>}}

(***************************************************************************)
(* Specifications.                                                         *)
(***************************************************************************)
BatchIdle ==
  /\ files = <<>> /\ idx = 0 /\ pc = "idle" /\ handed = {} /\ jobs = <<>>
  /\ folder = FALSE
DateIdle == dateIn = <<>> /\ dateOut = <<>>
GpsIdle == gpsIn = <<>> /\ gpsOut = <<>>
GeoIdle == geoIn = <<>> /\ geoOut = <<>>
OvIdle == ovIn = <<>> /\ ovOut = <<>>

batchVars == <<files, idx, pc, handed, jobs, folder>>
dateVars == <<dateIn, dateOut>>
gpsVars == <<gpsIn, gpsOut>>
geoVars == <<geoIn, geoOut>>
ovVars == <<ovIn, ovOut>>

\* main over a walk of at most MaxFiles files
Init ==
  /\ folder \in BOOLEAN
  /\ files \in UNION {[1..n -> Profiles] : n \in 0..MaxFiles}
  /\ ~folder => files = <<>>
  /\ idx = 0
  /\ pc = "start"
  /\ handed = {}
  /\ jobs = [i \in 1..Len(files) |-> Pending]
  /\ DateIdle /\ GpsIdle /\ GeoIdle /\ OvIdle

Next ==
  \/ (NoInputFolder /\ UNCHANGED <<dateVars, gpsVars, geoVars, ovVars>>)
  \/ (Begin /\ UNCHANGED <<dateVars, gpsVars, geoVars, ovVars>>)
  \/ (SkipFile /\ UNCHANGED <<dateVars, gpsVars, geoVars, ovVars>>)
  \/ (ProcessFile /\ UNCHANGED <<dateVars, gpsVars, geoVars, ovVars>>)
  \/ (Finish /\ UNCHANGED <<dateVars, gpsVars, geoVars, ovVars>>)

Spec == Init /\ [][Next]_vars

\* get_date on every EXIF dictionary of DateInputs
CallGetDate ==
  /\ dateOut = <<>>
  /\ dateOut' = <<get_date(dateIn)>>
  /\ UNCHANGED <<dateIn, batchVars, gpsVars, geoVars, ovVars>>

DateInit ==
  /\ dateIn \in DateInputs /\ dateOut = <<>>
  /\ BatchIdle /\ GpsIdle /\ GeoIdle /\ OvIdle

DateSpec == DateInit /\ [][CallGetDate]_vars

\* get_gps_coords on every EXIF dictionary of GpsInputs
CallGetGpsCoords ==
  /\ gpsOut = <<>>
  /\ gpsOut' = <<get_gps_coords(gpsIn)>>
  /\ UNCHANGED <<gpsIn, batchVars, dateVars, geoVars, ovVars>>

GpsInit ==
  /\ gpsIn \in GpsInputs /\ gpsOut = <<>>
  /\ BatchIdle /\ DateIdle /\ GeoIdle /\ OvIdle

GpsSpec == GpsInit /\ [][CallGetGpsCoords]_vars

\* reverse_geocode on every geocoder outcome of GeoInputs
CallReverseGeocode ==
  /\ geoOut = <<>>
  /\ geoOut' = <<reverse_geocode(NewYork, geoIn)>>
  /\ UNCHANGED <<geoIn, batchVars, dateVars, gpsVars, ovVars>>

GeoInit ==
  /\ geoIn \in GeoInputs /\ geoOut = <<>>
  /\ BatchIdle /\ DateIdle /\ GpsIdle /\ OvIdle

GeoSpec == GeoInit /\ [][CallReverseGeocode]_vars

\* add_overlay on every caption text of OvInputs
CallAddOverlay ==
  /\ ovOut = <<>>
  /\ ovOut' = <<add_overlay(ovIn.text, ovIn.width, ovIn.height)>>
  /\ UNCHANGED <<ovIn, batchVars, dateVars, gpsVars, geoVars>>

OvInit ==
  /\ ovIn \in OvInputs /\ ovOut = <<>>
  /\ BatchIdle /\ DateIdle /\ GpsIdle /\ GeoIdle

OvSpec == OvInit /\ [][CallAddOverlay]_vars

(***************************************************************************)
(* Claims.                                                                 *)
(***************************************************************************)
Ended == pc \in {"done", "aborted"}
SupportedIndices == {i \in 1..Len(files) : Supported(files[i])}

\* C1: a failure while handling one file never aborts the run: when main
\* has ended, every supported file of the walk was handed to process_image
\* and every file that process_image can save has been saved.
C1_NoFailureAbortsRun ==
  Ended =>
    \A i \in SupportedIndices :
      /\ i \in handed
      /\ process_image(files[i]).status = "Saved" => jobs[i].status = "Saved"

\* the text the claim expects of get_date: the first present of
\* DateTimeOriginal (Exif IFD), DateTime (0th IFD), DateTimeDigitized (Exif
\* IFD), decoded; "Unknown Date" when none is present
C2_Expected(exif_dict) ==
  IF 36867 \in DOMAIN exif_dict["Exif"]
  THEN decode(exif_dict["Exif"][36867]).val
  ELSE IF 306 \in DOMAIN exif_dict["0th"]
  THEN decode(exif_dict["0th"][306]).val
  ELSE IF 36868 \in DOMAIN exif_dict["Exif"]
  THEN decode(exif_dict["Exif"][36868]).val
  ELSE UnknownDate

C2_AllDecodable(exif_dict) ==
  \A ifd \in {"0th", "Exif"} :
    \A k \in DOMAIN exif_dict[ifd] : decode(exif_dict[ifd][k]).exc = "none"

\* C2: on every EXIF dictionary (whose tags hold valid UTF-8), get_date
\* returns the decoded text of the first tag present in the order
\* DateTimeOriginal, DateTime, DateTimeDigitized, returns "Unknown Date" when
\* none is present, and never raises.
C2_GetDateFirstPresent ==
  (dateOut # <<>> /\ C2_AllDecodable(dateIn)) =>
    /\ dateOut[1].exc = "none"
    /\ dateOut[1].val = C2_Expected(dateIn)

C3_NoUsableField(geo) ==
  /\ geo.kind = "location"
  /\ "address" \in DOMAIN geo.raw
  /\ \A i \in 1..Len(AddressParts) :
       AddressParts[i] \notin DOMAIN geo.raw["address"]

\* C3: reverse_geocode raises nothing; it returns "Unknown Location" for a
\* successful result whose address has none of the six fields, and
\* "Location Unavailable" on a timeout or any other geocoder exception.
C3_NoFieldsGivesUnknownLocation ==
  geoOut # <<>> =>
    /\ geoOut[1].exc = "none"
    /\ geoIn.kind \in {"timeout", "error"} =>
         geoOut[1].val = LocationUnavailable
    /\ C3_NoUsableField(geoIn) => geoOut[1].val = UnknownLocation

\* every whitespace-delimited word of the caption is narrower than the
\* usable width
C4_WordsNarrow(in) ==
  \A i \in 1..Len(SplitWords(in.text)) :
    TextWidth(SplitWords(in.text)[i]) < in.width - 4 * padding

\* C4: when every word of the caption is narrower than the usable width,
\* every wrapped line add_overlay produces, the first sub-line of a label
\* line included, is at most the usable width wide.
C4_LinesFitUsableWidth ==
  (ovOut # <<>> /\ ovOut[1].exc = "none" /\ C4_WordsNarrow(ovIn)) =>
    \A i \in 1..Len(ovOut[1].val.wrapped_lines) :
      TextWidth(ovOut[1].val.wrapped_lines[i]) <= ovIn.width - 4 * padding

C5_TripleOk(gps, key) ==
  /\ key \in DOMAIN gps
  /\ Len(gps[key]) = 3
  /\ \A i \in 1..3 : gps[key][i][2] # 0

C5_Complete(gps) ==
  /\ C5_TripleOk(gps, GPSLatitude) /\ GPSLatitudeRef \in DOMAIN gps
  /\ C5_TripleOk(gps, GPSLongitude) /\ GPSLongitudeRef \in DOMAIN gps

\* C5: get_gps_coords returns a (lat, lon) pair only when the GPS block
\* holds both triples and both references with every denominator non-zero;
\* otherwise it returns None.
C5_CoordOnlyFromCompleteQuadruple ==
  (gpsOut # <<>> /\ gpsOut[1].val # <<>>) => C5_Complete(gpsIn["GPS"])

\* C5 as amended: get_gps_coords raises nothing and returns a pair exactly
\* when both triples are present with three components and non-zero
\* denominators; a missing reference does not withhold the coordinate, the
\* axis is then taken as positive (N, E).
C5_CoordIffBothTriples ==
  gpsOut # <<>> =>
    /\ gpsOut[1].exc = "none"
    /\ gpsOut[1].val # <<>> <=>
         /\ C5_TripleOk(gpsIn["GPS"], GPSLatitude)
         /\ C5_TripleOk(gpsIn["GPS"], GPSLongitude)
    /\ (gpsOut[1].val # <<>> /\ GPSLatitudeRef \notin DOMAIN gpsIn["GPS"])
         => ~gpsOut[1].val[1][1].neg
    /\ (gpsOut[1].val # <<>> /\ GPSLongitudeRef \notin DOMAIN gpsIn["GPS"])
         => ~gpsOut[1].val[1][2].neg

\* a coordinate came back although the latitude reference is missing
C5_Witness ==
  /\ gpsOut # <<>> /\ gpsOut[1].val # <<>>
  /\ GPSLatitudeRef \notin DOMAIN gpsIn["GPS"]
  /\ GPSLongitudeRef \in DOMAIN gpsIn["GPS"]

\* numerator and denominator of deg + min/60 + sec/3600 for a triple of
\* rationals with non-zero denominators
C6_Num(t) ==
  3600 * t[1][1] * t[2][2] * t[3][2] + 60 * t[2][1] * t[1][2] * t[3][2]
    + t[3][1] * t[1][2] * t[2][2]
C6_Den(t) == 3600 * t[1][2] * t[2][2] * t[3][2]

\* the double out is n / d up to the rounding of the conversion, whose seven
\* float operations (five divisions, two additions) each round a
\* non-negative term by at most 2^-53 of its size: |out - n/d| <= (n/d) * 2^-50
C6_Close(out, n, d) ==
  LET x == BigShl(BigMul(out.man, BigOfInt(d)),
                  IF out.exp >= 0 THEN out.exp ELSE 0)
      y == BigShl(BigOfInt(n), IF out.exp < 0 THEN 0 - out.exp ELSE 0)
      diff == IF BigCmp(x, y) >= 0 THEN BigSub(x, y) ELSE BigSub(y, x)
  IN BigCmp(BigShl(diff, 50), y) <= 0

C6_AxisOk(gps, key, refKey, positive, out) ==
  /\ C6_Close(out, C6_Num(gps[key]), C6_Den(gps[key]))
  /\ out.neg <=> (refKey \in DOMAIN gps /\ gps[refKey] # positive)

\* a block whose rationals have denominators other than 1:
\* latitude (40,1),(26,1),(4614,100) ref 'S', longitude
\* (74,1),(1,2),(2165,100) ref 'W'
C6_Surveyed ==
  GpsDict(<< << <<40, 1>>, <<26, 1>>, <<4614, 100>> >> >>, <<Bytes_S>>,
          << << <<74, 1>>, <<1, 2>>, <<2165, 100>> >> >>, <<Bytes_W>>)

\* what repr prints for the coordinate of C6_Surveyed
C6_SurveyedStr ==
  <<"(", "-", "4", "0", ".", "4", "4", "6", "1", "4", "9", "9", "9", "9",
    "9", "9", "9", "9", "9", "6", ",", " ", "-", "7", "4", ".", "0", "1",
    "4", "3", "4", "7", "2", "2", "2", "2", "2", "2", "2", "3", ")">>

\* C6: with both triples present and all denominators non-zero, each axis
\* of the returned pair has magnitude deg + min/60 + sec/3600, each rational
\* taken as numerator/denominator (as the double the sum rounds to), and is
\* negated exactly when its reference is other than 'N' (latitude), 'E'
\* (longitude); 40,0,0 N with 74,0,0 W gives exactly (40.0, -74.0), and
\* 40,26,46.14 S with 74,0.5,21.65 W gives
\* (-40.446149999999996, -74.01434722222223).
C6_SignedDecimalDegrees ==
  (/\ gpsOut # <<>>
   /\ C5_TripleOk(gpsIn["GPS"], GPSLatitude)
   /\ C5_TripleOk(gpsIn["GPS"], GPSLongitude)) =>
    /\ gpsOut[1].val # <<>>
    /\ C6_AxisOk(gpsIn["GPS"], GPSLatitude, GPSLatitudeRef, Bytes_N,
                 gpsOut[1].val[1][1])
    /\ C6_AxisOk(gpsIn["GPS"], GPSLongitude, GPSLongitudeRef, Bytes_E,
                 gpsOut[1].val[1][2])
    /\ gpsIn["GPS"] = GoodGps =>
         gpsOut[1].val[1] = << FloatOfInt(40), Negate(FloatOfInt(74)) >>
    /\ gpsIn["GPS"] = C6_Surveyed =>
         CoordsStr(gpsOut[1].val) = C6_SurveyedStr

\* a block with denominators other than 1 and both references negative has
\* been converted, the quotients taken exactly
C6_Witness ==
  /\ gpsOut # <<>>
  /\ gpsIn["GPS"] = C6_Surveyed
  /\ gpsOut[1].val # <<>>
  /\ gpsOut[1].val[1][1].neg /\ gpsOut[1].val[1][2].neg
  /\ CoordsStr(gpsOut[1].val) = C6_SurveyedStr

\* the magnitude of the float f is at most the integer n
C7_AtMost(f, n) == CmpScaled(f.man, f.exp, BigOfInt(n), 0) <= 0

C7_InRange(coords) == C7_AtMost(coords[1], 90) /\ C7_AtMost(coords[2], 180)

\* C7: every coordinate get_gps_coords returns has its latitude in
\* [-90, 90] and its longitude in [-180, 180].
C7_CoordsInRange ==
  (gpsOut # <<>> /\ gpsOut[1].val # <<>>) => C7_InRange(gpsOut[1].val[1])

\* n/d exceeds the integer lim by more than the rounding of the conversion,
\* respectively stays below it by more than that
C7_ClearlyAbove(n, d, lim) ==
  BigCmp(BigShl(BigOfInt(n), 50),
         BigMul(BigOfInt(lim * d), BigAdd(BigShl(<<1>>, 50), <<1>>))) > 0
C7_ClearlyWithin(n, d, lim) ==
  BigCmp(BigShl(BigOfInt(n), 50),
         BigMul(BigOfInt(lim * d), BigSub(BigShl(<<1>>, 50), <<1>>))) < 0

C7_AxisFollows(t, out, lim) ==
  /\ C7_ClearlyAbove(C6_Num(t), C6_Den(t), lim) => ~C7_AtMost(out, lim)
  /\ C7_ClearlyWithin(C6_Num(t), C6_Den(t), lim) => C7_AtMost(out, lim)

\* C7 as amended: get_gps_coords checks no range; the latitude it returns
\* is outside [-90, 90] whenever deg + min/60 + sec/3600 of the latitude
\* triple exceeds 90 and inside whenever it is below 90 (by more than the
\* rounding of the sum), and likewise the longitude with 180.
C7_RangeFollowsInput ==
  (gpsOut # <<>> /\ gpsOut[1].val # <<>>) =>
    /\ C7_AxisFollows(gpsIn["GPS"][GPSLatitude], gpsOut[1].val[1][1], 90)
    /\ C7_AxisFollows(gpsIn["GPS"][GPSLongitude], gpsOut[1].val[1][2], 180)

\* a latitude above 90 degrees came back as a coordinate
C7_Witness ==
  /\ gpsOut # <<>> /\ gpsOut[1].val # <<>>
  /\ C7_ClearlyAbove(C6_Num(gpsIn["GPS"][GPSLatitude]),
                     C6_Den(gpsIn["GPS"][GPSLatitude]), 90)
  /\ ~C7_AtMost(gpsOut[1].val[1][1], 90)

\* the jobs whose image was opened, and so reached the resize step
Opened == {i \in handed : jobs[i].status \in {"Saved", "Failed"}
                          /\ files[i].decodes}
Longer(f) == IF f.width > f.height THEN f.width ELSE f.height

\* C8: whenever the longer side of the source image exceeds MAX_WIDTH, the
\* image passed to add_overlay has both dimensions at most MAX_WIDTH.
C8_LongerSideBounded ==
  \A i \in Opened :
    Longer(files[i]) > MAX_WIDTH =>
      jobs[i].size[1] <= MAX_WIDTH /\ jobs[i].size[2] <= MAX_WIDTH

\* C8 as amended: the image is downscaled exactly when its width exceeds
\* MAX_WIDTH, to width MAX_WIDTH and height int(height * (MAX_WIDTH / width))
\* computed in doubles, that is height * MAX_WIDTH / width rounded down, or
\* one less when that quotient is whole and the double product falls just
\* below it; otherwise the image is captioned at its own size.  So the
\* width passed to add_overlay is at most MAX_WIDTH while the height may
\* exceed it.
C8_WidthBounded ==
  \A i \in Opened :
    /\ jobs[i].size[1] <= MAX_WIDTH
    /\ files[i].width > MAX_WIDTH =>
         /\ jobs[i].size[1] = MAX_WIDTH
         /\ jobs[i].size[2] * files[i].width <= files[i].height * MAX_WIDTH
         /\ (jobs[i].size[2] + 1) * files[i].width
              >= files[i].height * MAX_WIDTH
    /\ files[i].width <= MAX_WIDTH =>
         jobs[i].size = <<files[i].width, files[i].height>>

\* a square image wider than MAX_WIDTH was downscaled and saved, its height
\* one below MAX_WIDTH, and a portrait image taller than MAX_WIDTH was saved
\* at its own size
C8_Witness ==
  /\ \E i \in Opened : /\ files[i].width = 2215 /\ files[i].height = 2215
                       /\ jobs[i].status = "Saved"
                       /\ jobs[i].size = <<2048, 2047>>
  /\ \E i \in Opened : /\ files[i].width <= MAX_WIDTH
                       /\ files[i].height > MAX_WIDTH
                       /\ jobs[i].status = "Saved"

\* C9: a supported file whose EXIF loads, whose image decodes and whose
\* output is writable ends saved, whatever metadata is missing and whatever
\* the geocoder returns or raises.
C9_MissingDataNeverFails ==
  \A i \in handed :
    (files[i].exifLoads /\ files[i].decodes /\ files[i].writable) =>
      jobs[i].status = "Saved"

RECURSIVE C10_Heights(_, _)
C10_Heights(lines, i) ==
  IF i > Len(lines) THEN 0
  ELSE TextHeight(lines[i]) + C10_Heights(lines, i + 1)

\* C10: an empty caption gives zero lines, a block height of exactly 0, the
\* anchor y = height - 0 - 2 * padding and no draw call; for any caption the
\* block height is the sum of the line heights plus padding * (lines - 1)
\* and is never negative.
C10_EmptyCaptionZeroHeight ==
  (ovOut # <<>> /\ ovOut[1].exc = "none") =>
    LET o == ovOut[1].val IN
    /\ o.total_text_height = C10_Heights(o.wrapped_lines, 1)
                               + padding * (Len(o.wrapped_lines) - 1)
    /\ o.total_text_height >= 0
    /\ ovIn.text = <<>> =>
         /\ o.wrapped_lines = <<>> /\ o.draws = <<>>
         /\ o.total_text_height = 0
         /\ o.y = ovIn.height - 2 * padding

\* C10 as amended: an empty caption gives zero lines, no draw call, a block
\* height of -padding and the anchor y = height - padding; for any caption
\* laid out, the block height is the sum of the line heights plus
\* padding * (lines - 1), the anchor is y = height - block height -
\* 2 * padding, and the block height is negative only when there is no line.
C10_BlockHeightFormula ==
  (ovOut # <<>> /\ ovOut[1].exc = "none") =>
    LET o == ovOut[1].val IN
    /\ o.total_text_height = C10_Heights(o.wrapped_lines, 1)
                               + padding * (Len(o.wrapped_lines) - 1)
    /\ o.y = ovIn.height - o.total_text_height - 2 * padding
    /\ Len(o.draws) = 2 * Len(o.wrapped_lines)
    /\ o.wrapped_lines # <<>> => o.total_text_height >= 0
    /\ o.wrapped_lines = <<>> => o.total_text_height = 0 - padding
    /\ ovIn.text = <<>> =>
         /\ o.wrapped_lines = <<>> /\ o.draws = <<>>
         /\ o.y = ovIn.height - padding

\* the empty caption has been laid out
C10_Witness ==
  /\ ovOut # <<>> /\ ovOut[1].exc = "none"
  /\ ovIn.text = <<>>
  /\ ovOut[1].val.total_text_height = 0 - padding

====
